---- MODULE Spec2Model ----
(***************************************************************************)
(* Model of src/db.py: a command-line script that prints the documents of  *)
(* a MongoDB collection, optionally filtered by symbol and capped by a     *)
(* limit.  One run of main() is one behaviour: the command line, the       *)
(* environment and the stored documents are fixed in the initial state and *)
(* main() is stepped statement by statement.                               *)
(***************************************************************************)
EXTENDS Integers, Sequences, FiniteSets, TLC

(***************************************************************************)
(* Bounds of the model.                                                    *)
(***************************************************************************)
MaxSymLen == 3
\* longest --symbol value
MaxDocs == 2
\* most documents in the collection
MaxLimit == 2
\* --limit ranges over -MaxLimit..MaxLimit

(***************************************************************************)
(* Python values.  An optional value (None or v) is <<>> or <<v>>; a str   *)
(* that is transformed is a sequence of characters; a dict is a set of     *)
(* <<key, value>> pairs with distinct keys.                                *)
(***************************************************************************)
None == <<>>
Some(v) == <<v>>
IsNone(o) == o = <<>>
Val(o) == o[1]

Chars == {"a", "A", " "}
Strings(n) == UNION {[1..k -> Chars] : k \in 0..n}

\* mutant: "if uri is None" in place of truthiness
TruthyStrNotNone(o) == ~IsNone(o)
\* bool(x) for an optional str given as a TLA+ string: None and "" are falsy
TruthyStr(o) == ~IsNone(o) /\ Val(o) # ""
\* bool(x) for an optional str given as a character sequence
TruthySeq(o) == ~IsNone(o) /\ Len(Val(o)) > 0
\* bool(x) for an optional int
TruthyInt(o) == ~IsNone(o) /\ Val(o) # 0

IsSpace(c) == c = " "
UpperChar(c) == IF c = "a" THEN "A" ELSE c

RECURSIVE LStrip(_)
LStrip(s) == IF Len(s) > 0 /\ IsSpace(s[1]) THEN LStrip(Tail(s)) ELSE s
RECURSIVE RStrip(_)
RStrip(s) == IF Len(s) > 0 /\ IsSpace(s[Len(s)]) THEN RStrip(SubSeq(s, 1, Len(s) - 1)) ELSE s
\* str.strip()
Strip(s) == RStrip(LStrip(s))
\* str.upper()
Upper(s) == [i \in 1..Len(s) |-> UpperChar(s[i])]

\* dict operations
HasKey(d, k) == \E kv \in d : kv[1] = k
Get(d, k) == (CHOOSE kv \in d : kv[1] = k)[2]
Put(d, k, v) == {kv \in d : kv[1] # k} \cup {<<k, v>>}

(***************************************************************************)
(* The inputs of a run: the command line, the environment, the collection. *)
(***************************************************************************)
\* _id values: a native ObjectId, or a str
ObjectId(n) == [type |-> "ObjectId", val |-> n]
StrValue(n) == [type |-> "str", val |-> n]

DocA1 == {<<"_id", ObjectId(1)>>, <<"symbol", <<"A">>>>}
DocA2 == {<<"_id", StrValue(2)>>, <<"symbol", <<"A">>>>}
DocM == {<<"_id", ObjectId(3)>>, <<"symbol", <<"M">>>>}
DocE == {<<"_id", ObjectId(4)>>, <<"symbol", <<>>>>}
DocN == {<<"price", 5>>}
Docs == {DocA1, DocA2, DocM, DocE, DocN}

\* a collection holds distinct documents, in an order the store defines
Injective(s) == \A i, j \in 1..Len(s) : i # j => s[i] # s[j]
Stores == {s \in UNION {[1..k -> Docs] : k \in 0..MaxDocs} : Injective(s)}

OptSymbols == {None} \cup {Some(s) : s \in Strings(MaxSymLen)}
OptLimits == {None} \cup {Some(n) : n \in (0 - MaxLimit)..MaxLimit}
OptUris == {None, Some(""), Some("mongodb://localhost")}

\* command lines whose database and collection options are left out
QueryArgvs ==
    [kind : {"ok"}, db_name : {None}, collection : {None},
     symbol : OptSymbols, limit : OptLimits]
\* command lines that vary the configuration options; kind is what
\* parse_args() makes of the line: "ok", "help" (-h/--help) or "error"
ConfigArgvs ==
    [kind : {"ok", "help", "error"},
     db_name : {None, Some("ArgDb")}, collection : {None, Some("ArgCol")},
     symbol : {None, Some(<<"a">>)}, limit : {None}]

VARIABLES argv, env, store, pc, args, uri, connects, db, col, query, finds,
          cursor, document, out, exitStatus, stderr, faulted, events

inputs == <<argv, env, store>>
vars == <<argv, env, store, pc, args, uri, connects, db, col, query, finds,
          cursor, document, out, exitStatus, stderr, faulted, events>>

Init ==
    /\ \/ /\ argv \in QueryArgvs
          /\ env \in [MONGODB_URI : OptUris, MONGODB_DB : {None}]
          /\ store \in Stores
       \/ /\ argv \in ConfigArgvs
          /\ env \in [MONGODB_URI : OptUris,
                      MONGODB_DB : {None, Some(""), Some("EnvDb")}]
          /\ store \in {<<>>, <<DocA1, DocM>>}
    /\ pc = "parse_args"
    /\ args = None
    /\ uri = None
    /\ connects = 0
    /\ db = None
    /\ col = None
    /\ query = {}
    /\ finds = <<>>
    /\ cursor = <<>>
    /\ document = {}
    /\ out = <<>>
    /\ exitStatus = None
    /\ stderr = ""
    /\ faulted = FALSE
    /\ events = <<>>

(***************************************************************************)
(* Process termination.                                                    *)
(***************************************************************************)
\* sys.exit / SystemExit(code): the process ends with that status
Exit(status, message) ==
    /\ pc' = "exited"
    /\ exitStatus' = Some(status)
    /\ stderr' = message

\* an exception no handler catches: traceback, exit status 1
Unhandled ==
    /\ Exit(1, "Traceback")
    /\ faulted' = TRUE

(***************************************************************************)
(* main(), statement by statement.                                         *)
(***************************************************************************)
\* default of --db-name: os.getenv("MONGODB_DB") or "TradingApp"
DbNameDefault == IF TruthyStr(env.MONGODB_DB) THEN Val(env.MONGODB_DB) ELSE "TradingApp"
\* default of --collection
CollectionDefault == "HistoricalData"

\* mutant: the environment override wins over an explicit --db-name
NamespaceEnvFirst ==
    [db_name |-> IF ~IsNone(env.MONGODB_DB) /\ Val(env.MONGODB_DB) # ""
                   THEN Val(env.MONGODB_DB)
                   ELSE IF IsNone(argv.db_name) THEN "TradingApp" ELSE Val(argv.db_name),
     collection |-> IF IsNone(argv.collection) THEN "HistoricalData" ELSE Val(argv.collection),
     symbol |-> argv.symbol,
     limit |-> argv.limit]

\* the namespace parse_args() returns for an accepted command line
Namespace ==
    [db_name |-> IF IsNone(argv.db_name) THEN DbNameDefault ELSE Val(argv.db_name),
     collection |-> IF IsNone(argv.collection) THEN CollectionDefault ELSE Val(argv.collection),
     symbol |-> argv.symbol,
     limit |-> argv.limit]

\* args = parser.parse_args(): -h prints the help and exits 0, a line the
\* parser rejects prints the usage and exits 2
ParseArgs ==
    /\ pc = "parse_args"
    /\ events' = Append(events, "parse")
    /\ \/ /\ argv.kind = "ok"
          /\ args' = Some(Namespace)
          /\ pc' = "check_uri"
          /\ UNCHANGED <<exitStatus, stderr>>
       \/ /\ argv.kind = "help"
          /\ Exit(0, "help")
          /\ UNCHANGED args
       \/ /\ argv.kind = "error"
          /\ Exit(2, "usage")
          /\ UNCHANGED args
    /\ UNCHANGED <<inputs, uri, connects, db, col, query, finds, cursor,
                   document, out, faulted>>

\* mutant: the connection string is read but its absence is not fatal
CheckUriNoExit ==
    /\ pc = "check_uri"
    /\ uri' = env.MONGODB_URI
    /\ events' = Append(events, "validate")
    /\ pc' = "connect"
    /\ UNCHANGED <<inputs, args, connects, db, col, query, finds, cursor,
                   document, out, exitStatus, stderr, faulted>>

\* uri = os.getenv("MONGODB_URI"); if not uri: raise SystemExit(message)
CheckUri ==
    /\ pc = "check_uri"
    /\ uri' = env.MONGODB_URI
    /\ events' = Append(events, "validate")
    /\ IF ~TruthyStr(env.MONGODB_URI)
         THEN Exit(1, "MONGODB_URI environment variable is not set.")
         ELSE /\ pc' = "connect"
              /\ UNCHANGED <<exitStatus, stderr>>
    /\ UNCHANGED <<inputs, args, connects, db, col, query, finds, cursor,
                   document, out, faulted>>

\* mongo_client = MongoClient(uri); db = mongo_client[...]; col = db[...]
Connect ==
    /\ pc = "connect"
    /\ connects' = connects + 1
    /\ events' = Append(events, "connect")
    /\ db' = Some(Val(args).db_name)
    /\ col' = Some(Val(args).collection)
    /\ pc' = "build_query"
    /\ UNCHANGED <<inputs, args, uri, query, finds, cursor, document, out,
                   exitStatus, stderr, faulted>>

\* MongoClient(uri) or the name lookups raise
ConnectFault ==
    /\ pc = "connect"
    /\ connects' = connects + 1
    /\ events' = Append(events, "connect")
    /\ Unhandled
    /\ UNCHANGED <<inputs, args, uri, db, col, query, finds, cursor, document,
                   out>>

\* the filter built from --symbol
BuildFilter(symbol) ==
    IF TruthySeq(symbol) THEN {<<"symbol", Upper(Strip(Val(symbol)))>>} ELSE {}

\* query = {}; if args.symbol: query["symbol"] = str(args.symbol).strip().upper()
BuildQuery ==
    /\ pc = "build_query"
    /\ query' = BuildFilter(Val(args).symbol)
    /\ events' = Append(events, "filter")
    /\ pc' = "find"
    /\ UNCHANGED <<inputs, args, uri, connects, db, col, finds, cursor,
                   document, out, exitStatus, stderr, faulted>>

(***************************************************************************)
(* The store and the driver's cursor.                                      *)
(***************************************************************************)
\* mutant: a document matches when it holds the keys, whatever their values
MatchesKeyOnly(doc, filter) == \A kv \in filter : \E f \in doc : f[1] = kv[1]

\* a document matches a filter when it holds every key of the filter with
\* an equal value; the empty filter matches every document
Matches(doc, filter) ==
    \A kv \in filter : HasKey(doc, kv[1]) /\ Get(doc, kv[1]) = kv[2]

RECURSIVE Select(_, _)
\* the documents of s that match, in the order of s
Select(s, filter) ==
    IF s = <<>> THEN <<>>
    ELSE IF Matches(Head(s), filter)
           THEN <<Head(s)>> \o Select(Tail(s), filter)
           ELSE Select(Tail(s), filter)

Min(a, b) == IF a <= b THEN a ELSE b
Abs(n) == IF n < 0 THEN 0 - n ELSE n

\* mutant: the cap is off by one
CursorLimitOffByOne(c, n) ==
    IF n = 0 THEN c
    ELSE SubSeq(c, 1, IF (IF n < 0 THEN 0 - n ELSE n) + 1 <= Len(c)
                        THEN (IF n < 0 THEN 0 - n ELSE n) + 1 ELSE Len(c))

\* cursor.limit(n): the first |n| documents; a limit of 0 is no limit
CursorLimit(c, n) == IF n = 0 THEN c ELSE SubSeq(c, 1, Min(Abs(n), Len(c)))

\* mutant: "if args.limit" without the sign test
LimitAppliesTruthy(limit) == ~IsNone(limit) /\ Val(limit) # 0

\* if args.limit and args.limit > 0
LimitApplies(limit) == TruthyInt(limit) /\ Val(limit) > 0

\* the result sequence of col.find(query), capped when the limit applies
ResultSequence(filter, limit) ==
    IF LimitApplies(limit)
      THEN CursorLimit(Select(store, filter), Val(limit))
      ELSE Select(store, filter)

\* cursor = col.find(query); if args.limit and args.limit > 0: cursor = cursor.limit(...)
Find ==
    /\ pc = "find"
    /\ finds' = Append(finds, [db |-> Val(db), col |-> Val(col), filter |-> query])
    /\ events' = Append(events, "query")
    /\ cursor' = ResultSequence(query, Val(args).limit)
    /\ pc' = "iterate"
    /\ UNCHANGED <<inputs, args, uri, connects, db, col, query, document, out,
                   exitStatus, stderr, faulted>>

\* the store rejects or fails the query
FindFault ==
    /\ pc = "find"
    /\ finds' = Append(finds, [db |-> Val(db), col |-> Val(col), filter |-> query])
    /\ events' = Append(events, "query")
    /\ Unhandled
    /\ UNCHANGED <<inputs, args, uri, connects, db, col, query, cursor,
                   document, out>>

\* mutant: the end of the result sequence is reported as an error exit
IterateExitMessage ==
    /\ pc = "iterate"
    /\ IF cursor = <<>>
         THEN /\ Exit(1, "no more documents")
              /\ UNCHANGED <<cursor, document>>
         ELSE /\ document' = Head(cursor)
              /\ cursor' = Tail(cursor)
              /\ pc' = "convert"
              /\ UNCHANGED <<exitStatus, stderr>>
    /\ UNCHANGED <<inputs, args, uri, connects, db, col, query, finds, out,
                   faulted, events>>

\* for document in cursor: the next document, or the end of the loop, after
\* which main() returns and the process exits 0
Iterate ==
    /\ pc = "iterate"
    /\ IF cursor = <<>>
         THEN /\ Exit(0, "")
              /\ UNCHANGED <<cursor, document>>
         ELSE /\ document' = Head(cursor)
              /\ cursor' = Tail(cursor)
              /\ pc' = "convert"
              /\ UNCHANGED <<exitStatus, stderr>>
    /\ UNCHANGED <<inputs, args, uri, connects, db, col, query, finds, out,
                   faulted, events>>

\* mutant: the exception is caught and the loop goes on
IterateFaultSwallowed ==
    /\ pc = "iterate"
    /\ ~faulted
    /\ faulted' = TRUE
    /\ UNCHANGED <<inputs, pc, args, uri, connects, db, col, query, finds,
                   cursor, document, out, exitStatus, stderr, events>>

\* fetching from the cursor raises
IterateFault ==
    /\ pc = "iterate"
    /\ Unhandled
    /\ UNCHANGED <<inputs, args, uri, connects, db, col, query, finds, cursor,
                   document, out, events>>

\* str(value): the text form of a value
Str(v) == StrValue(v.val)

\* mutant: the document is printed as the driver returned it
ConvertIdSkipped(doc) == doc

\* if "_id" in document: document["_id"] = str(document["_id"])
ConvertId(doc) == IF HasKey(doc, "_id") THEN Put(doc, "_id", Str(Get(doc, "_id"))) ELSE doc

Convert ==
    /\ pc = "convert"
    /\ document' = ConvertId(document)
    /\ pc' = "print"
    /\ UNCHANGED <<inputs, args, uri, connects, db, col, query, finds, cursor,
                   out, exitStatus, stderr, faulted, events>>

\* print(document): one line of output
PrintDocument ==
    /\ pc = "print"
    /\ out' = Append(out, document)
    /\ events' = Append(events, "emit")
    /\ pc' = "iterate"
    /\ UNCHANGED <<inputs, args, uri, connects, db, col, query, finds, cursor,
                   document, exitStatus, stderr, faulted>>

Next ==
    \/ ParseArgs
    \/ CheckUri
    \/ Connect
    \/ ConnectFault
    \/ BuildQuery
    \/ Find
    \/ FindFault
    \/ Iterate
    \/ IterateFault
    \/ Convert
    \/ PrintDocument

Spec == Init /\ [][Next]_vars

\* the interpreter runs main() to its end: a step that can be taken is taken
FairSpec == Spec /\ WF_vars(Next)

TypeOK ==
    /\ pc \in {"parse_args", "check_uri", "connect", "build_query", "find",
               "iterate", "convert", "print", "exited"}
    /\ connects \in 0..1
    /\ Len(out) <= Len(store)
    /\ faulted \in BOOLEAN

(***************************************************************************)
(* Vocabulary of the properties.                                           *)
(***************************************************************************)
UriMissing == env.MONGODB_URI \in {None, Some("")}
Accepted == argv.kind = "ok"
Completed == pc = "exited" /\ ~faulted /\ finds # <<>>

\* the filter the query was issued with, and the stored documents it
\* selects: those that hold each of its key/value pairs
FilterSent == finds[1].filter
Satisfies(doc) == FilterSent \subseteq doc
Matching == SelectSeq(store, Satisfies)

\* a document as it is printed: its _id, when it has one, as text
Printed(doc) ==
    IF HasKey(doc, "_id")
      THEN Put(doc, "_id", [type |-> "str", val |-> Get(doc, "_id").val])
      ELSE doc
PrintedSeq(s) == [i \in 1..Len(s) |-> Printed(s[i])]

(***************************************************************************)
(* C1                                                                      *)
(***************************************************************************)
\* C1 as stated: whenever MONGODB_URI is unset or empty, whatever the
\* command line, no connection is opened, no query is issued, no document
\* line is emitted, and the process exits with a non-zero status.
C1_Original ==
    UriMissing =>
        /\ connects = 0 /\ finds = <<>> /\ out = <<>>
        /\ pc \in {"parse_args", "check_uri", "exited"}
        /\ pc = "exited" => Val(exitStatus) # 0

\* C1 amended: whenever MONGODB_URI is unset or empty, no connection is
\* opened, no query is issued and no document line is emitted, the run
\* never gets past the connection-string check, and the process exits with
\* a non-zero status unless the command line asks for the help (-h), which
\* exits 0 before the check.
C1_NoUriNoIO ==
    UriMissing =>
        /\ connects = 0 /\ finds = <<>> /\ out = <<>>
        /\ pc \in {"parse_args", "check_uri", "exited"}
        /\ pc = "exited" => (Val(exitStatus) = 0 <=> argv.kind = "help")

C1_Witness ==
    /\ env.MONGODB_URI = Some("")
    /\ Accepted
    /\ ~IsNone(argv.symbol)
    /\ pc = "exited"
    /\ exitStatus = Some(1)
    /\ stderr = "MONGODB_URI environment variable is not set."

(***************************************************************************)
(* C2                                                                      *)
(***************************************************************************)
\* C2: whenever --symbol is supplied with any string s, the empty string
\* included, the filter passed to find is exactly {symbol: upper(strip(s))}.
C2_FilterIsNormalizedSymbol ==
    \A i \in 1..Len(finds) :
        ~IsNone(argv.symbol) =>
            finds[i].filter = {<<"symbol", Upper(Strip(Val(argv.symbol)))>>}

\* the same for every supplied symbol but the empty string
C2_NonEmptySymbol ==
    \A i \in 1..Len(finds) :
        (~IsNone(argv.symbol) /\ Val(argv.symbol) # <<>>) =>
            finds[i].filter = {<<"symbol", Upper(Strip(Val(argv.symbol)))>>}

(***************************************************************************)
(* C3                                                                      *)
(***************************************************************************)
\* C3: a run without --limit that completes normally has emitted exactly
\* one line for each stored document that matches the filter, and none for
\* any other; without --symbol the filter is empty and every document is
\* emitted; --symbol a over the documents A and M emits the A document only.
C3_OneLinePerMatch ==
    (Completed /\ IsNone(argv.limit)) =>
        /\ Len(out) = Cardinality({i \in 1..Len(store) : Satisfies(store[i])})
        /\ \A i \in 1..Len(store) :
               Satisfies(store[i]) <=> \E j \in 1..Len(out) : out[j] = Printed(store[i])
        /\ IsNone(argv.symbol) => (FilterSent = {} /\ Len(out) = Len(store))
        /\ (argv.symbol = Some(<<"a">>) /\ store = <<DocA1, DocM>>) =>
               out = <<Printed(DocA1)>>

C3_Witness ==
    /\ Completed /\ IsNone(argv.limit)
    /\ argv.symbol = Some(<<"a">>)
    /\ store = <<DocA1, DocM>>
    /\ Len(out) = 1

(***************************************************************************)
(* C4                                                                      *)
(***************************************************************************)
\* C4: with --limit 0 or a negative --limit the cursor is not capped: the
\* run emits every matching document, as it does without --limit.
C4_NonPositiveLimitIgnored ==
    (~IsNone(argv.limit) /\ Val(argv.limit) <= 0 /\ finds # <<>>) =>
        /\ pc = "iterate" => out \o PrintedSeq(cursor) = PrintedSeq(Matching)
        /\ Completed => out = PrintedSeq(Matching)

C4_Witness ==
    /\ Completed
    /\ argv.limit = Some(0 - 1)
    /\ Len(Matching) = 2
    /\ Len(out) = 2

(***************************************************************************)
(* C5                                                                      *)
(***************************************************************************)
\* C5: with --limit N, N > 0, the number of lines emitted so far never
\* exceeds N, and on normal completion the emitted documents are the first
\* min(N, number of matches) documents of the result sequence, in order.
C5_TakeFirstN ==
    (~IsNone(argv.limit) /\ Val(argv.limit) > 0) =>
        /\ Len(out) <= Val(argv.limit)
        /\ Completed =>
               out = PrintedSeq(SubSeq(Matching, 1, Min(Val(argv.limit), Len(Matching))))

C5_Witness ==
    /\ Completed
    /\ argv.limit = Some(1)
    /\ Len(Matching) = 2
    /\ out = <<Printed(Matching[1])>>

(***************************************************************************)
(* C6                                                                      *)
(***************************************************************************)
\* C6: the _id of a document is converted to text before the document is
\* emitted: neither the document about to be printed nor any emitted line
\* holds an _id in its native form.
C6_IdIsText ==
    /\ \A j \in 1..Len(out) :
           HasKey(out[j], "_id") => Get(out[j], "_id").type = "str"
    /\ (pc = "print" /\ HasKey(document, "_id")) => Get(document, "_id").type = "str"

C6_Witness ==
    \E j \in 1..Len(out) : out[j] = {<<"_id", StrValue(1)>>, <<"symbol", <<"A">>>>}

(***************************************************************************)
(* C7                                                                      *)
(***************************************************************************)
\* C7 as stated: every invocation with MONGODB_URI set and no fault from
\* the store ends with exit status 0.
C7_Original ==
    (pc = "exited" /\ ~UriMissing /\ ~faulted) => exitStatus = Some(0)

\* C7 amended: every invocation whose command line the parser accepts, with
\* MONGODB_URI set, terminates, and when no fault occurred it terminates
\* with exit status 0 after the query was issued and its result sequence
\* exhausted; with an empty store it has then emitted zero lines.
C7_TerminatesZero ==
    (Accepted /\ ~UriMissing) =>
        <>(/\ pc = "exited"
           /\ ~faulted =>
                  /\ exitStatus = Some(0)
                  /\ finds # <<>>
                  /\ cursor = <<>>
                  /\ store = <<>> => out = <<>>)

C7_Witness ==
    /\ Accepted /\ ~UriMissing /\ Completed
    /\ store = <<>>
    /\ ~IsNone(argv.symbol)
    /\ out = <<>>
    /\ exitStatus = Some(0)

(***************************************************************************)
(* C8                                                                      *)
(***************************************************************************)
\* C8 as stated: the database is the --db-name value when passed, otherwise
\* MONGODB_DB when it is set, otherwise 'TradingApp'; the collection is
\* 'HistoricalData' unless --collection is passed.
C8_Original ==
    ~IsNone(db) =>
        /\ Val(db) = IF ~IsNone(argv.db_name) THEN Val(argv.db_name)
                     ELSE IF ~IsNone(env.MONGODB_DB) THEN Val(env.MONGODB_DB)
                     ELSE "TradingApp"
        /\ Val(col) = IF ~IsNone(argv.collection) THEN Val(argv.collection)
                      ELSE "HistoricalData"

\* C8 amended: the database is the --db-name value when passed, otherwise
\* MONGODB_DB when it is set to a non-empty value, otherwise 'TradingApp'
\* (also when MONGODB_DB is set but empty); the collection is
\* 'HistoricalData' unless --collection is passed; the query goes to that
\* database and collection.
C8_DbPrecedence ==
    ~IsNone(db) =>
        /\ Val(db) = IF ~IsNone(argv.db_name) THEN Val(argv.db_name)
                     ELSE IF env.MONGODB_DB \notin {None, Some("")} THEN Val(env.MONGODB_DB)
                     ELSE "TradingApp"
        /\ Val(col) = IF ~IsNone(argv.collection) THEN Val(argv.collection)
                      ELSE "HistoricalData"
        /\ \A i \in 1..Len(finds) : finds[i].db = Val(db) /\ finds[i].col = Val(col)

C8_Witness ==
    /\ argv.db_name = Some("ArgDb")
    /\ env.MONGODB_DB = Some("EnvDb")
    /\ IsNone(argv.collection)
    /\ Len(finds) = 1
    /\ finds[1].db = "ArgDb"
    /\ finds[1].col = "HistoricalData"

(***************************************************************************)
(* C9                                                                      *)
(***************************************************************************)
StepOrder == <<"parse", "validate", "connect", "filter", "query">>

\* C9: the steps of a run occur in the order parse, validation, connection,
\* filter construction, query, then output; at most one connection is
\* opened and at most one query issued; the connection is opened only
\* after the connection-string check has passed; no document is emitted
\* before the query was issued.
C9_LinearOrder ==
    /\ \A i \in 1..Len(events) :
           events[i] = IF i <= Len(StepOrder) THEN StepOrder[i] ELSE "emit"
    /\ connects <= 1
    /\ Len(finds) <= 1
    /\ connects > 0 => (~UriMissing /\ uri = env.MONGODB_URI)
    /\ out # <<>> => Len(finds) = 1
    /\ Len(out) = Len(events) - Min(Len(events), Len(StepOrder))

C9_Witness ==
    /\ events = StepOrder \o <<"emit", "emit">>
    /\ connects = 1
    /\ pc = "exited"

(***************************************************************************)
(* C10                                                                     *)
(***************************************************************************)
\* C10: a fault at connection, at query or while iterating is fatal: once
\* it has occurred the process has exited with a non-zero status and takes
\* no further step, so nothing is retried, no second connection or query
\* is made and no further line is emitted.
C10_FaultIsFatal ==
    faulted =>
        /\ pc = "exited"
        /\ ~IsNone(exitStatus) /\ Val(exitStatus) # 0
        /\ connects <= 1 /\ Len(finds) <= 1
        /\ ~ENABLED Next

C10_Witness ==
    /\ faulted
    /\ Len(out) = 1
    /\ cursor # <<>>
    /\ events[Len(events)] = "emit"

====
